---- MODULE Spec2Model ----
(***************************************************************************)
(* yellowbrick.features.base: MultiFeatureVisualizer / DataVisualizer.     *)
(* One DataVisualizer instance: its construction and its fit calls.        *)
(*                                                                         *)
(* Encoding of Python values                                               *)
(*   None / an attribute not yet set   None == << >>                       *)
(*   any other value v                 Some(v) == << v >>                  *)
(*   a list or 1-d array               a sequence                          *)
(*   a TargetType member               its name, "AUTO" .. "CONTINUOUS"    *)
(*   a dict                            the sequence of its <<key, value>>  *)
(*                                     items in insertion order            *)
(***************************************************************************)
EXTENDS Integers, Sequences, FiniteSets, TLC

VARIABLES
    pc,                  \* "new" | "ready" (constructed) | "init_raised"
    arg_target_type,     \* the target_type string given to __init__
    arg_classes,         \* the classes argument given to __init__
    arg_features,        \* the features argument given to __init__
    features_,           \* self.features_
    classes_,            \* self.classes_
    color,               \* self.color
    colormap,            \* self.colormap
    target_type,         \* self.target_type (requested type)
    _target_color_type,  \* self._target_color_type (resolved type)
    _colors,             \* self._colors
    range_,              \* self.range_
    X_arg,               \* X of the latest fit call
    y_arg,               \* y of the latest fit call
    fit_result,          \* outcome of the latest fit call
    warned,              \* warnings emitted by the latest fit call
    draws                \* draw calls made by the latest fit call

vars == << pc, arg_target_type, arg_classes, arg_features, features_, classes_,
           color, colormap, target_type, _target_color_type, _colors, range_,
           X_arg, y_arg, fit_result, warned, draws >>

None == << >>
Some(v) == << v >>

-----------------------------------------------------------------------------
(* Bounds of the model *)

MaxLen == 2         \* length of the exhaustively enumerated label vectors
MaxDistinct == 11   \* the long label vectors have up to this many distinct values
MaxCols == 4        \* columns of the unnamed-column X

(* Program constant: the distinct-value threshold of the AUTO heuristic *)
AutoThreshold == 10

-----------------------------------------------------------------------------
(* Generic helpers *)

Range(s) == { s[i] : i \in DOMAIN s }

SetMin(S) == CHOOSE m \in S : \A v \in S : m <= v

SetMax(S) == CHOOSE m \in S : \A v \in S : m >= v

RECURSIVE SortedSeq(_)
SortedSeq(S) == IF S = {} THEN << >>
                ELSE << SetMin(S) >> \o SortedSeq(S \ { SetMin(S) })

(* np.unique on a 1-d integer array: the sorted distinct values *)
np_unique(y) == SortedSeq(Range(y))

Digits == << "0", "1", "2", "3", "4", "5", "6", "7", "8", "9" >>

(* str() of an integer label *)
RECURSIVE str(_)
str(n) == IF n < 0 THEN "-" \o str(0 - n)
          ELSE IF n < 10 THEN Digits[n + 1]
          ELSE str(n \div 10) \o Digits[(n % 10) + 1]

(* len(np.unique(y)); np.unique(None) is the one-element array [None] *)
n_unique(y) == IF y = None THEN 1 ELSE Len(np_unique(y[1]))

(* [str(label) for label in np.unique(y)] *)
unique_labels(y) ==
    IF y = None THEN << "None" >>
    ELSE [ i \in 1..Len(np_unique(y[1])) |-> str(np_unique(y[1])[i]) ]

(* zip(a, b): pairs up to the shorter length *)
zip(a, b) ==
    [ i \in 1..(IF Len(a) < Len(b) THEN Len(a) ELSE Len(b)) |-> << a[i], b[i] >> ]

(* d[k] = v on an insertion-ordered dict *)
DictSet(d, k, v) ==
    IF \E i \in DOMAIN d : d[i][1] = k
    THEN [ i \in DOMAIN d |-> IF d[i][1] = k THEN << k, v >> ELSE d[i] ]
    ELSE Append(d, << k, v >>)

(* dict(pairs): the pairs inserted left to right *)
RECURSIVE DictFrom(_, _)
DictFrom(d, pairs) ==
    IF pairs = << >> THEN d
    ELSE DictFrom(DictSet(d, Head(pairs)[1], Head(pairs)[2]), Tail(pairs))

dict(pairs) == DictFrom(<< >>, pairs)

DictKeys(d) == { d[i][1] : i \in DOMAIN d }

DictGet(d, k) == d[CHOOSE i \in DOMAIN d : d[i][1] = k][2]

-----------------------------------------------------------------------------
(* class TargetType(Enum) *)

TargetTypes == { "AUTO", "SINGLE", "DISCRETE", "CONTINUOUS" }

(* Faulty variant of TargetType: an unknown value falls back to AUTO *)
TargetType_fallback(value) ==
    CASE value = "auto"       -> Some("AUTO")
      [] value = "single"     -> Some("SINGLE")
      [] value = "discrete"   -> Some("DISCRETE")
      [] value = "continuous" -> Some("CONTINUOUS")
      [] OTHER                -> Some("AUTO")

(* TargetType(value): lookup of a member by value; None stands for the       *)
(* ValueError the Enum raises for a value of no member.                      *)
TargetType(value) ==
    CASE value = "auto"       -> Some("AUTO")
      [] value = "single"     -> Some("SINGLE")
      [] value = "discrete"   -> Some("DISCRETE")
      [] value = "continuous" -> Some("CONTINUOUS")
      [] OTHER                -> None

-----------------------------------------------------------------------------
(* Values of self.features_ and self._colors.  Arrays of names and arrays of *)
(* integers are kept in separate fields of one record shape.                 *)

NameArray(names) == [ kind |-> "names", names |-> names, ints |-> << >> ]

(* np.arange(lo, hi) *)
arange(lo, hi) ==
    [ kind |-> "ints", names |-> << >>,
      ints |-> [ i \in 1..(IF hi > lo THEN hi - lo ELSE 0) |-> lo + i - 1 ] ]

ColorStr(s) == [ kind |-> "str", s |-> s, items |-> << >>, cmap |-> None ]

ColorDict(d) == [ kind |-> "dict", s |-> "", items |-> d, cmap |-> None ]

(* mpl.cm.get_cmap(name): the colour scale registered under the colormap hint *)
get_cmap(name) == [ kind |-> "cmap", s |-> "", items |-> << >>, cmap |-> name ]

(* yellowbrick.style.resolve_colors: n_colors colour values, in order, made  *)
(* from the two hints.                                                       *)
resolve_colors(n_colors, cmap, colors) ==
    [ i \in 1..n_colors |-> [ colormap |-> cmap, colors |-> colors, idx |-> i ] ]

-----------------------------------------------------------------------------
(* MultiFeatureVisualizer.fit: the value of self.features_ after the call *)

(* Faulty variant of MultiFeatureVisualizer_fit: names re-derived by every call *)
MultiFeatureVisualizer_fit_rederive(features, X) ==
    IF X.is_dataframe
    THEN Some(NameArray(X.columns))
    ELSE Some(arange(0, X.ncols))

MultiFeatureVisualizer_fit(features, X) ==
    IF features = None
    THEN IF X.is_dataframe
         THEN Some(NameArray(X.columns))
         ELSE Some(arange(0, X.ncols))
    ELSE features

-----------------------------------------------------------------------------
(* DataVisualizer._determine_target_color_type *)

(* the AUTO heuristic on a label vector *)
(* Faulty variant of auto_target_color_type: "<=" for "<" *)
auto_target_color_type_le(y) ==
    IF n_unique(y) <= AutoThreshold THEN "DISCRETE" ELSE "CONTINUOUS"

auto_target_color_type(y) ==
    IF n_unique(y) < AutoThreshold THEN "DISCRETE" ELSE "CONTINUOUS"

(* Faulty variant of _determine_target_color_type: the requested type is    *)
(* looked at before the absence of y                                         *)
determine_requested_first(requested, y) ==
    IF requested = "AUTO"
    THEN IF y = None THEN "SINGLE" ELSE auto_target_color_type(y)
    ELSE requested

(* Faulty variant of _determine_target_color_type: the heuristic is applied  *)
(* whatever the requested type                                               *)
determine_always_heuristic(requested, y) ==
    IF y = None THEN "SINGLE" ELSE auto_target_color_type(y)

(* the value assigned to self._target_color_type *)
_determine_target_color_type(requested, y) ==
    IF y = None THEN "SINGLE"
    ELSE IF requested = "AUTO" THEN auto_target_color_type(y)
    ELSE requested

(* the closing check: the resolved type must not be AUTO *)
determine_raises(resolved) == resolved = "AUTO"

-----------------------------------------------------------------------------
(* DataVisualizer.fit, DISCRETE branch *)

(* Faulty variant of fit_classes: the classes are taken from every y *)
fit_classes_rederive(classes, y) == Some(unique_labels(y))

(* self.classes_ after the "if self.classes_ is None" block *)
fit_classes(classes, y) ==
    IF classes = None THEN Some(unique_labels(y)) ELSE classes

(* Faulty variant of classes_mismatch: only too few classes are reported *)
classes_mismatch_fewer(classes, y) == Len(classes[1]) < n_unique(y)

(* the condition of the warning *)
classes_mismatch(classes, y) == Len(classes[1]) # n_unique(y)

(* Faulty variant of discrete_colors: one colour too few is requested *)
discrete_colors_short(classes, cmap, colors) ==
    ColorDict(dict(zip(classes[1],
                       resolve_colors(Len(classes[1]) - 1, cmap, colors))))

(* self._colors = dict(zip(self.classes_, color_values)) *)
discrete_colors(classes, cmap, colors) ==
    ColorDict(dict(zip(classes[1],
                       resolve_colors(Len(classes[1]), cmap, colors))))

(* DataVisualizer.fit, CONTINUOUS branch *)

(* y.min() / y.max() of np.asarray(y) raise ValueError on a zero-size array *)
range_raises(y) == y # None /\ y[1] = << >>

(* self.range_ = (y.min(), y.max()); np.asarray(None).min() is None *)
target_range(y) ==
    IF y = None THEN Some(<< None, None >>)
    ELSE Some(<< SetMin(Range(y[1])), SetMax(Range(y[1])) >>)

-----------------------------------------------------------------------------
(* Inputs *)

CtorTargetTypes == { "auto", "single", "discrete", "continuous", "bogus", "AUTO" }

CtorFeatures == { None, Some(NameArray(<< "f1", "f2" >>)) }

CtorClasses == { None, Some(<< "x", "y" >>), Some(<< "a", "a" >>),
                 Some(<< "1", "2", "3" >>) }

CtorHints == { << None, None >>, << Some(<< "r", "g" >>), Some("viridis") >> }

DataFrame(columns) ==
    [ is_dataframe |-> TRUE, columns |-> columns, ncols |-> Len(columns) ]

Array(ncols) == [ is_dataframe |-> FALSE, columns |-> << >>, ncols |-> ncols ]

Xs == { DataFrame(<< "age", "income" >>), DataFrame(<< "income" >>) }
         \cup { Array(MaxCols) }

ShortLabels == { 1, 2 }

ShortVectors == UNION { [ 1..n -> ShortLabels ] : n \in 0..MaxLen }

Ascending(d) == [ i \in 1..(d + 1) |-> IF i <= d THEN i ELSE 1 ]

Descending(d) == [ i \in 1..d |-> d + 1 - i ]

LongVectors == { Ascending(d) : d \in (AutoThreshold - 1)..MaxDistinct }
                 \cup { Descending(AutoThreshold) }

Ys == { None } \cup { Some(v) : v \in ShortVectors \cup LongVectors
                                        \cup { << 1, 5, 3, 9, 2 >> } }

-----------------------------------------------------------------------------
(* State machine *)

Init ==
    /\ pc = "new"
    /\ arg_target_type = "" /\ arg_classes = None /\ arg_features = None
    /\ features_ = None /\ classes_ = None
    /\ color = None /\ colormap = None
    /\ target_type = None
    /\ _target_color_type = None
    /\ _colors = None
    /\ range_ = None
    /\ X_arg = None /\ y_arg = None
    /\ fit_result = "none"
    /\ warned = << >>
    /\ draws = << >>

(* DataVisualizer.__init__ *)
DataVisualizer_init(features, classes, colors, cmap, tt) ==
    /\ pc = "new"
    /\ arg_target_type' = tt /\ arg_classes' = classes /\ arg_features' = features
    /\ features_' = features
    /\ classes_' = classes
    /\ color' = colors
    /\ colormap' = cmap
    /\ IF TargetType(tt) = None
       THEN /\ pc' = "init_raised"          \* YellowbrickValueError
            /\ UNCHANGED target_type
       ELSE /\ pc' = "ready"
            /\ target_type' = TargetType(tt)
    /\ UNCHANGED << _target_color_type, _colors, range_, X_arg, y_arg,
                    fit_result, warned, draws >>

(* self.draw(X, y, **kwargs): the hook sees the colours assigned so far *)
DrawCall(X, y, colors) == [ X |-> X, y |-> y, colors |-> colors ]

(* DataVisualizer.fit *)
DataVisualizer_fit(X, y) ==
    /\ pc = "ready"
    /\ X_arg' = Some(X) /\ y_arg' = Some(y)
    /\ features_' = MultiFeatureVisualizer_fit(features_, X)
    /\ LET resolved == _determine_target_color_type(target_type[1], y) IN
       /\ _target_color_type' = Some(resolved)
       /\ IF determine_raises(resolved)
          THEN /\ fit_result' = "YellowbrickValueError"
               /\ warned' = << >> /\ draws' = << >>
               /\ UNCHANGED << classes_, _colors, range_ >>
          ELSE IF resolved = "SINGLE"
          THEN /\ _colors' = Some(ColorStr("b"))
               /\ warned' = << >>
               /\ draws' = << DrawCall(X, y, _colors') >>
               /\ fit_result' = "self"
               /\ UNCHANGED << classes_, range_ >>
          ELSE IF resolved = "DISCRETE"
          THEN /\ classes_' = fit_classes(classes_, y)
               /\ warned' = IF classes_mismatch(classes_', y)
                            THEN << "YellowbrickWarning" >> ELSE << >>
               /\ _colors' = Some(discrete_colors(classes_', colormap, color))
               /\ draws' = << DrawCall(X, y, _colors') >>
               /\ fit_result' = "self"
               /\ UNCHANGED range_
          ELSE IF resolved = "CONTINUOUS"
          THEN /\ warned' = << >>
               /\ IF range_raises(y)
                  THEN /\ fit_result' = "ValueError"
                       /\ draws' = << >>
                       /\ UNCHANGED << classes_, _colors, range_ >>
                  ELSE /\ range_' = target_range(y)
                       /\ _colors' = Some(get_cmap(colormap))
                       /\ draws' = << DrawCall(X, y, _colors') >>
                       /\ fit_result' = "self"
                       /\ UNCHANGED classes_
          ELSE /\ fit_result' = "YellowbrickValueError"
               /\ warned' = << >> /\ draws' = << >>
               /\ UNCHANGED << classes_, _colors, range_ >>
    /\ UNCHANGED << pc, arg_target_type, arg_classes, arg_features, color,
                    colormap, target_type >>

Construct ==
    \E features \in CtorFeatures, classes \in CtorClasses,
       hints \in CtorHints, tt \in CtorTargetTypes :
        DataVisualizer_init(features, classes, hints[1], hints[2], tt)

Fit == \E X \in Xs, y \in Ys : DataVisualizer_fit(X, y)

Next == Construct \/ Fit

Spec == Init /\ [][Next]_vars

-----------------------------------------------------------------------------
(* Vocabulary of the properties *)

FitCalled == X_arg # None

LastX == X_arg[1]

LastY == y_arg[1]

YAbsent == LastY = None

(* number of distinct values of the latest call's label vector *)
DistinctCount == Cardinality({ LastY[1][i] : i \in DOMAIN LastY[1] })

ExplicitTypes == { "SINGLE", "DISCRETE", "CONTINUOUS" }

Resolved == _target_color_type[1]

-----------------------------------------------------------------------------
(* C1: in every fit call whose label vector y is None the resolved target   *)
(* type is SINGLE, whatever the requested type and whatever earlier fit      *)
(* calls did to the instance.                                                *)
C1_AbsentLabelsResolveSingle ==
    (FitCalled /\ YAbsent) => _target_color_type = Some("SINGLE")

(* a fit without labels on an instance that requested DISCRETE and whose     *)
(* classes were derived by an earlier DISCRETE fit                           *)
C1_Witness ==
    /\ FitCalled /\ YAbsent
    /\ target_type = Some("DISCRETE")
    /\ arg_classes = None /\ classes_ # None
    /\ _target_color_type = Some("SINGLE")

-----------------------------------------------------------------------------
(* C2 as stated: for a requested type that is explicitly SINGLE, DISCRETE or *)
(* CONTINUOUS, the type resolved by a fit call equals the requested type.    *)
C2_ExplicitTypeAlwaysWins ==
    (FitCalled /\ target_type[1] \in ExplicitTypes)
        => _target_color_type = target_type

(* C2 amended: for a requested type that is explicitly SINGLE, DISCRETE or   *)
(* CONTINUOUS and a label vector that is present (not None), the resolved    *)
(* type equals the requested type whatever the number of distinct values.    *)
C2_ExplicitTypeWinsWhenLabelled ==
    (FitCalled /\ target_type[1] \in ExplicitTypes /\ ~YAbsent)
        => _target_color_type = target_type

(* DISCRETE requested and kept for a vector of 10 or more distinct values *)
C2_Witness ==
    /\ FitCalled /\ ~YAbsent
    /\ target_type = Some("DISCRETE")
    /\ DistinctCount >= 10
    /\ _target_color_type = Some("DISCRETE")

-----------------------------------------------------------------------------
(* C3: with a present label vector and requested type AUTO the resolved     *)
(* type is DISCRETE exactly when y has fewer than 10 distinct values and     *)
(* CONTINUOUS exactly when it has 10 or more.                                *)
C3_AutoThreshold ==
    (FitCalled /\ target_type = Some("AUTO") /\ ~YAbsent)
        => /\ (Resolved = "DISCRETE") <=> (DistinctCount < 10)
           /\ (Resolved = "CONTINUOUS") <=> (DistinctCount >= 10)

(* the boundary: exactly 10 distinct values resolve to CONTINUOUS *)
C3_Witness ==
    /\ FitCalled /\ ~YAbsent
    /\ target_type = Some("AUTO")
    /\ DistinctCount = 10
    /\ _target_color_type = Some("CONTINUOUS")

-----------------------------------------------------------------------------
(* Vocabulary of C4 and C5 *)

DiscreteFitReturned ==
    /\ FitCalled
    /\ _target_color_type = Some("DISCRETE")
    /\ fit_result = "self"

Classes == classes_[1]

Mapping == _colors[1].items

(* the colour sequence requested for the class list *)
ColorValues == resolve_colors(Len(Classes), colormap, color)

LastIndexOf(c) ==
    CHOOSE i \in DOMAIN Classes :
        Classes[i] = c /\ \A j \in DOMAIN Classes : Classes[j] = c => j <= i

PairwiseDistinct(seq) ==
    \A i, j \in DOMAIN seq : seq[i] = seq[j] => i = j

(* C4 as stated: after a fit that resolves to DISCRETE the mapping's key set *)
(* is the set of elements of the class list, its size is len(classes), and   *)
(* each class is bound to the colour at its own position.                    *)
C4_MappingMatchesClassList ==
    DiscreteFitReturned
        => /\ _colors[1].kind = "dict"
           /\ DictKeys(Mapping) = Range(Classes)
           /\ Len(Mapping) = Len(Classes)
           /\ \A i \in DOMAIN Classes :
                  DictGet(Mapping, Classes[i]) = ColorValues[i]

(* C4 amended: after a fit that resolves to DISCRETE the mapping's key set   *)
(* is the set of elements of the class list and its size is the number of    *)
(* distinct elements of the list; each class is bound to the colour at the   *)
(* position of its last occurrence in the list.  When the elements of the    *)
(* list are pairwise distinct, as those of a data-derived list are, the size *)
(* is len(classes) and the items are the classes in list order, each with    *)
(* the colour at the same position.                                          *)
C4_MappingMatchesDistinctClasses ==
    DiscreteFitReturned
        => /\ _colors[1].kind = "dict"
           /\ DictKeys(Mapping) = Range(Classes)
           /\ Len(Mapping) = Cardinality(Range(Classes))
           /\ \A i \in DOMAIN Classes :
                  DictGet(Mapping, Classes[i]) = ColorValues[LastIndexOf(Classes[i])]
           /\ arg_classes = None => PairwiseDistinct(Classes)
           /\ PairwiseDistinct(Classes)
                  => /\ Len(Mapping) = Len(Classes)
                     /\ \A i \in DOMAIN Classes :
                            Mapping[i] = << Classes[i], ColorValues[i] >>

(* a supplied list with a repeated class: one key, bound to the second colour *)
C4_Witness ==
    /\ DiscreteFitReturned
    /\ Classes = << "a", "a" >>
    /\ Len(Mapping) = 1
    /\ Mapping[1] = << "a", ColorValues[2] >>

-----------------------------------------------------------------------------
(* C5: when a fit call resolves to DISCRETE and a class list is already set  *)
(* whose length differs from the number of distinct values of y, fit emits a *)
(* warning, does not raise, leaves the class list as it was, builds the      *)
(* mapping from that list, calls draw and returns the instance; when the     *)
(* lengths are equal it emits no warning.                                    *)
C5_Step ==
    (/\ pc = "ready"
     /\ classes_ # None
     /\ _target_color_type' = Some("DISCRETE"))
        => LET distinct == Cardinality(Range(y_arg'[1][1])) IN
           /\ fit_result' = "self"
           /\ classes_' = classes_
           /\ _colors'[1].kind = "dict"
           /\ DictKeys(_colors'[1].items) = Range(classes_[1])
           /\ Len(draws') = 1
           /\ draws'[1].colors = _colors'
           /\ IF Len(classes_[1]) # distinct
              THEN warned' = << "YellowbrickWarning" >>
              ELSE warned' = << >>

C5_MismatchWarnsAndProceeds == [][C5_Step]_vars

(* classes ["x", "y"] supplied, five distinct labels fitted *)
C5_Witness ==
    /\ DiscreteFitReturned
    /\ arg_classes = Some(<< "x", "y" >>)
    /\ classes_ = arg_classes
    /\ DistinctCount = 5
    /\ warned = << "YellowbrickWarning" >>
    /\ Len(draws) = 1
    /\ DictKeys(Mapping) = { "x", "y" }

-----------------------------------------------------------------------------
(* C6: constructing with a target_type string that is none of "auto",       *)
(* "single", "discrete", "continuous" raises at construction, before any fit *)
(* can occur; constructing with one of the four never raises and stores the  *)
(* corresponding TargetType, which no later call changes.                    *)
C6_TargetTypeValidatedAtConstruction ==
    pc # "new"
        => /\ arg_target_type = "auto"
                => pc = "ready" /\ target_type = Some("AUTO")
           /\ arg_target_type = "single"
                => pc = "ready" /\ target_type = Some("SINGLE")
           /\ arg_target_type = "discrete"
                => pc = "ready" /\ target_type = Some("DISCRETE")
           /\ arg_target_type = "continuous"
                => pc = "ready" /\ target_type = Some("CONTINUOUS")
           /\ arg_target_type \notin { "auto", "single", "discrete", "continuous" }
                => /\ pc = "init_raised"
                   /\ target_type = None
                   /\ ~FitCalled /\ fit_result = "none" /\ draws = << >>

C6_Witness ==
    /\ pc = "init_raised"
    /\ arg_target_type = "bogus"
    /\ ~FitCalled

-----------------------------------------------------------------------------
(* C7: feature names are resolved at most once: a fit call that finds        *)
(* features None sets it to X's column names (named columns, in order) or to *)
(* 0..numColumns-1; a fit call that finds it set leaves it alone, whatever X.*)
C7_Step ==
    pc = "ready"
        => IF features_ = None
           THEN LET X == X_arg'[1] IN
                IF X.is_dataframe
                THEN /\ features_' # None
                     /\ features_'[1].kind = "names"
                     /\ features_'[1].names = X.columns
                ELSE /\ features_' # None
                     /\ features_'[1].kind = "ints"
                     /\ features_'[1].ints = [ i \in 1..X.ncols |-> i - 1 ]
           ELSE features_' = features_

C7_FeaturesResolvedOnce == [][C7_Step]_vars

(* names taken from a two-column frame survive a fit on a positional array *)
C7_Witness ==
    /\ FitCalled
    /\ arg_features = None
    /\ features_ = Some(NameArray(<< "age", "income" >>))
    /\ ~LastX.is_dataframe
    /\ LastX.ncols # 2

-----------------------------------------------------------------------------
(* C8: a fit call that resolves to CONTINUOUS stores (minimum, maximum) of   *)
(* that call's label vector and builds no class mapping; a fit call that     *)
(* resolves to SINGLE or DISCRETE does not write range_.                     *)
C8_Step ==
    pc = "ready"
        => IF _target_color_type' = Some("CONTINUOUS")
           THEN LET values == Range(y_arg'[1][1]) IN
                /\ range_' # None
                /\ range_'[1][1] \in values
                /\ range_'[1][2] \in values
                /\ \A v \in values : range_'[1][1] <= v /\ v <= range_'[1][2]
                /\ _colors' # None
                /\ _colors'[1].kind # "dict"
           ELSE range_' = range_

C8_RangeOnlyWhenContinuous == [][C8_Step]_vars

-----------------------------------------------------------------------------
(* C9: after every fit call the resolved type is SINGLE, DISCRETE or         *)
(* CONTINUOUS, never AUTO; no configuration error is raised; draw was called *)
(* exactly once, after the colours were assigned; the instance was returned. *)
C9_EveryFitDrawsAndReturnsSelf ==
    FitCalled
        => /\ _target_color_type # None
           /\ Resolved \in ExplicitTypes
           /\ fit_result # "YellowbrickValueError"
           /\ fit_result = "self"
           /\ Len(draws) = 1
           /\ draws[1].colors = _colors

-----------------------------------------------------------------------------
(* C10: each fit call resolves the target type from that call's label vector *)
(* and the requested type alone, and classes, once not None, is changed by   *)
(* no later fit call.                                                        *)
C10_Step ==
    pc = "ready"
        => /\ LET y == y_arg'[1] IN
              _target_color_type' =
                  Some(IF y = None THEN "SINGLE"
                       ELSE IF target_type = Some("AUTO")
                            THEN IF Cardinality(Range(y[1])) < 10
                                 THEN "DISCRETE" ELSE "CONTINUOUS"
                            ELSE target_type[1])
           /\ classes_ # None => classes_' = classes_

C10_TypeRecomputedClassesKept == [][C10_Step]_vars

(* classes derived by an earlier DISCRETE fit, kept by a DISCRETE fit on a   *)
(* vector with another number of distinct values                            *)
C10_Witness ==
    /\ DiscreteFitReturned
    /\ arg_classes = None
    /\ Classes = << "1", "2" >>
    /\ DistinctCount = 5

====
